---- MODULE Spec2Model ----
(***************************************************************************)
(* A model of libkrimes: the record-marking transport codec                *)
(* (src/src/lib.rs), the authentication request builder and the            *)
(* wire <-> domain request conversions (src/src/proto/request.rs).         *)
(*                                                                         *)
(* The four parts share no state, so each has its own specification:      *)
(*   SpecDecode   KerberosTcpCodec::decode fed by a byte-stream transport   *)
(*   SpecEncode   KerberosTcpCodec::encode writing into an output buffer    *)
(*   SpecConv     TryFrom<KdcReq> / TryInto<KrbKdcReq> for KerberosRequest  *)
(*   SpecBuilder  KerberosAuthenticationBuilder                             *)
(* A Rust panic (expect / unwrap / todo! / debug_assert!) is the result    *)
(* kind "Panic"; Result::Err is the kind "Err"; Result::Ok the kind "Ok".  *)
(***************************************************************************)
EXTENDS Integers, Sequences, FiniteSets, TLC

VARIABLES
    \* ---- decode side (lib.rs, impl Decoder for KerberosTcpCodec)
    wire,          \* the bytes the peer sends: one or two framed records
    payloads,      \* the payloads of the records in wire, in order
    net,           \* the pieces of wire the transport has not delivered yet
    rxbuf,         \* buf: &mut BytesMut handed to decode
    dlog,          \* one entry per decode call: bytes arrived so far, result
    \* ---- encode side (lib.rs, impl Encoder<KerberosRequest>)
    debug_assertions, \* build configuration: are debug_assert! compiled in
    txbuf,         \* buf: &mut BytesMut handed to encode
    enc_msg,       \* the message of the last encode call
    enc_ret,       \* the result of the last encode call
    enc_calls,     \* number of encode calls so far
    \* ---- conversions (request.rs)
    conv_in,       \* the input of the last conversion
    conv_ret,      \* its result
    \* ---- builder (request.rs, KerberosAuthenticationBuilder)
    builder,       \* the builder value, or Consumed
    pe_in,         \* the input of the last preauth_enc_ts call
    pe_ret,        \* its result
    pe_ok,         \* has some preauth_enc_ts call succeeded
    nonce_draw,    \* the 32-bit value thread_rng() produced in build()
    built,         \* the request build() returned
    steps          \* number of builder calls so far

vars == <<wire, payloads, net, rxbuf, dlog, debug_assertions, txbuf, enc_msg,
          enc_ret, enc_calls, conv_in, conv_ret, builder, pe_in, pe_ret,
          pe_ok, nonce_draw, built, steps>>

decodeVars  == <<wire, payloads, net, rxbuf, dlog>>
encodeVars  == <<debug_assertions, txbuf, enc_msg, enc_ret, enc_calls>>
convVars    == <<conv_in, conv_ret>>
builderVars == <<builder, pe_in, pe_ret, pe_ok, nonce_draw, built, steps>>

(***************************************************************************)
(* Common values                                                           *)
(***************************************************************************)
None == [kind |-> "None"]
Some(v) == [kind |-> "Some", val |-> v]
IsSome(o) == o.kind = "Some"

Ok(v) == [kind |-> "Ok", val |-> v]
Err(e) == [kind |-> "Err", err |-> e]
Panic(m) == [kind |-> "Panic", msg |-> m]
NotCalled == [kind |-> "NotCalled"]


(***************************************************************************)
(* 32-bit words.  TLC's integers are 32-bit signed, so a u32 is kept as    *)
(* its four bytes, most significant first; a value below 2^31 (first byte  *)
(* below 128) also has an integer value.                                   *)
(***************************************************************************)
\* a & b on bytes, bit by bit (n: bits left to do)
RECURSIVE ByteAnd(_, _, _)
ByteAnd(a, b, n) ==
    IF n = 0 THEN 0
    ELSE (IF a % 2 = 1 /\ b % 2 = 1 THEN 1 ELSE 0)
         + 2 * ByteAnd(a \div 2, b \div 2, n - 1)

\* a & b on u32
U32And(a, b) == [i \in 1..4 |-> ByteAnd(a[i], b[i], 8)]

\* The first n elements dropped / kept
Drop(s, n) == SubSeq(s, n + 1, Len(s))
Take(s, n) == SubSeq(s, 1, n)

(***************************************************************************)
(* RFC 1831 record marking, as xdr_codec::record implements it             *)
(* (the library the codec drives at lib.rs:57-61 and lib.rs:115-117).      *)
(***************************************************************************)
\* LAST_REC = 1 << 31: the top bit of the header's first byte
LastRecBit(b) == b[1] >= 128

\* the low 31 bits of a header: the fragment's length
FragSize(b) == (b[1] % 128) * 16777216 + b[2] * 65536 + b[3] * 256 + b[4]

\* write_u32::<BigEndian>(len | LAST_REC), len < 2^31
Header(len, eor) ==
    << (IF eor THEN 128 ELSE 0) + ((len \div 16777216) % 128),
       (len \div 65536) % 256, (len \div 256) % 256, len % 256 >>

\* one fragment with the last-fragment bit set
Fragment(data) == Header(Len(data), TRUE) \o data

\* xdr_codec::record::WRBUF, the size of the buffer XdrRecordWriter::new
\* gives the writer (65536), scaled to the model's messages
WRBUF == 3

\* XdrRecordWriter: write_all(data), then the drop of the writer with
\* implicit end-of-record set.  write() buffers at most WRBUF bytes; when
\* the next chunk does not fit it flushes the buffer as a fragment without
\* the last-fragment bit; the drop flushes what is left as the last fragment.
RECURSIVE record_write(_)
record_write(data) ==
    IF Len(data) <= WRBUF
        THEN Header(Len(data), TRUE) \o data
        ELSE Header(WRBUF, FALSE) \o Take(data, WRBUF)
             \o record_write(Drop(data, WRBUF))

\* XdrRecordReaderIter::next over a reader that consumes the bytes it reads
\* (bytes::buf::Reader advances the BytesMut).  acc: the fragments read so
\* far.  Result: the record (or Eof) and what is left in the buffer.
\*   - fewer than 4 bytes left for a header: read_exact consumes them and
\*     fails with UnexpectedEof, which nextrec maps to "end of stream";
\*   - fewer payload bytes than the header announces: read_to_end consumes
\*     them, the short read ends the iteration.
RECURSIVE ReadRecord(_, _)
ReadRecord(buf, acc) ==
    IF Len(buf) < 4
        THEN [kind |-> "Eof", rest |-> << >>]
        ELSE LET hdr  == Take(buf, 4)
                 size == FragSize(hdr)
                 eor  == LastRecBit(hdr)
                 body == Drop(buf, 4)
             IN  IF Len(body) < size
                     THEN [kind |-> "Eof", rest |-> << >>]
                     ELSE IF eor
                         THEN [kind |-> "Record",
                               record |-> acc \o Take(body, size),
                               rest |-> Drop(body, size)]
                         ELSE ReadRecord(Drop(body, size),
                                         acc \o Take(body, size))

(***************************************************************************)
(* KerberosResponse::from_der.  DER is abstracted to tag-length-value: a   *)
(* payload decodes when its first byte is the application tag of a reply   *)
(* (AS-REP [APPLICATION 11] = 107, KRB-ERROR [APPLICATION 30] = 126) and   *)
(* its second byte is the number of bytes that follow.                     *)
(***************************************************************************)
TAG_AS_REP == 107
TAG_KRB_ERROR == 126

from_der(record) ==
    IF /\ Len(record) >= 2
       /\ record[1] \in {TAG_AS_REP, TAG_KRB_ERROR}
       /\ record[2] = Len(record) - 2
        THEN Ok([variant |-> IF record[1] = TAG_AS_REP THEN "AsRep" ELSE "ErrRep",
                 body |-> Drop(record, 2)])
        ELSE Err("der")

\* Payloads a peer may send: two well-formed replies, a payload with a
\* foreign tag, a payload whose length byte promises more than it holds,
\* a well-formed reply longer than the codec's size limit.
DerSamples == { <<107, 1, 7>>, <<126, 0>>, <<48, 1, 7>>, <<107, 5, 1>>,
                <<107, 3, 7, 8, 9>> }

(***************************************************************************)
(* Decode side                                                             *)
(***************************************************************************)
MaxRecords == 2
MaxDecodeCalls == 3

RECURSIVE Frame(_)
Frame(ps) == IF ps = << >> THEN << >> ELSE Fragment(Head(ps)) \o Frame(Tail(ps))

PayloadSeqs == UNION { [1..n -> DerSamples] : n \in 1..MaxRecords }

RECURSIVE TotalLen(_)
TotalLen(pieces) ==
    IF pieces = << >> THEN 0 ELSE Len(Head(pieces)) + TotalLen(Tail(pieces))

\* a slip: the call empties the buffer, whatever follows the record
decode_result_drain(buf) ==
    LET rr == ReadRecord(buf, << >>)
    IN  IF rr.kind = "Eof"
            THEN [ret |-> Err("UnexpectedEof"), rest |-> << >>]
            ELSE LET rep == from_der(rr.record)
                 IN  IF rep.kind = "Ok"
                         THEN [ret |-> Ok(Some(rep.val)), rest |-> << >>]
                         ELSE [ret |-> Panic("Failed to decode"), rest |-> << >>]

\* a variant: no record yet is reported as Ok(None), "call again later"
decode_result_pending(buf) ==
    LET rr == ReadRecord(buf, << >>)
    IN  IF rr.kind = "Eof"
            THEN [ret |-> Ok(None), rest |-> rr.rest]
            ELSE LET rep == from_der(rr.record)
                 IN  IF rep.kind = "Ok"
                         THEN [ret |-> Ok(Some(rep.val)), rest |-> rr.rest]
                         ELSE [ret |-> Panic("Failed to decode"), rest |-> rr.rest]

\* lib.rs:56-82.  The reader is built over buf afresh on every call and
\* dropped at the end of it, with whatever it has consumed.
decode_result(buf) ==
    LET rr == ReadRecord(buf, << >>)
    IN  IF rr.kind = "Eof"
            THEN [ret |-> Err("UnexpectedEof"), rest |-> rr.rest]
            ELSE LET rep == from_der(rr.record)
                 IN  IF rep.kind = "Ok"
                         THEN [ret |-> Ok(Some(rep.val)), rest |-> rr.rest]
                         ELSE [ret |-> Panic("Failed to decode"), rest |-> rr.rest]

Panicked(log) == \E i \in 1..Len(log) : log[i].ret.kind = "Panic"

InitDecode ==
    /\ payloads \in PayloadSeqs
    /\ wire = Frame(payloads)
    /\ \E k \in 0..(Len(wire) - 1) :
          net = IF k = 0 THEN <<wire>> ELSE <<Take(wire, k), Drop(wire, k)>>
    /\ rxbuf = << >>
    /\ dlog = << >>
    \* the other parts of the library are not in use
    /\ debug_assertions = FALSE /\ txbuf = << >> /\ enc_msg = None
    /\ enc_ret = NotCalled /\ enc_calls = 0
    /\ conv_in = None /\ conv_ret = NotCalled
    /\ builder = None /\ pe_in = None /\ pe_ret = NotCalled /\ pe_ok = FALSE
    /\ nonce_draw = None /\ built = None /\ steps = 0

\* The transport appends the next piece to the input buffer.
Deliver ==
    /\ net # << >>
    /\ ~Panicked(dlog)
    /\ rxbuf' = rxbuf \o Head(net)
    /\ net' = Tail(net)
    /\ UNCHANGED <<wire, payloads, dlog>>

decode ==
    /\ Len(dlog) < MaxDecodeCalls
    /\ ~Panicked(dlog)
    /\ LET d == decode_result(rxbuf)
       IN  /\ rxbuf' = d.rest
           /\ dlog' = Append(dlog, [arrived |-> Len(wire) - TotalLen(net),
                                    before |-> rxbuf,
                                    after |-> d.rest,
                                    ret |-> d.ret])
    /\ UNCHANGED <<wire, payloads, net>>

(***************************************************************************)
(* Encode side                                                             *)
(***************************************************************************)
\* crate::constants::DEFAULT_IO_MAX_SIZE (lib.rs:37, :47), scaled down so
\* that messages on both sides of the limit are enumerated.
DEFAULT_IO_MAX_SIZE == 4
MaxDerLen == 6
MaxEncodeCalls == 2

\* impl Default for KerberosTcpCodec, lib.rs:44-50
max_size == DEFAULT_IO_MAX_SIZE

\* AS-REQ is [APPLICATION 10]
TAG_AS_REQ == 106

\* The DER serialization of a request, n bytes long (n >= 2)
DerOfLen(n) == [i \in 1..n |-> IF i = 1 THEN TAG_AS_REQ
                               ELSE IF i = 2 THEN n - 2 ELSE i]

\* A KerberosRequest handed to encode, abstracted to what msg.to_der() gives
EncMsgs == { [to_der |-> Ok(DerOfLen(n))] : n \in 2..MaxDerLen }
           \cup { [to_der |-> Err("der")] }

\* lib.rs:87-118.  dbg: debug_assert! is compiled in.
encode_result(dbg, msg, buf) ==
    IF dbg /\ buf # << >>
        THEN [ret |-> Panic("assertion failed: buf.is_empty()"), buf |-> buf]
    ELSE IF msg.to_der.kind = "Err"
        THEN [ret |-> Err("InvalidInput"), buf |-> buf]
    ELSE IF dbg /\ ~(Len(buf) <= max_size)
        THEN [ret |-> Panic("assertion failed: buf.len() <= self.max_size"),
              buf |-> buf]
    ELSE [ret |-> Ok("unit"), buf |-> buf \o record_write(msg.to_der.val)]

InitEncode ==
    /\ debug_assertions \in BOOLEAN
    /\ txbuf = << >>
    /\ enc_msg = None
    /\ enc_ret = NotCalled
    /\ enc_calls = 0
    \* the other parts of the library are not in use
    /\ wire = << >> /\ payloads = << >> /\ net = << >>
    /\ rxbuf = << >> /\ dlog = << >>
    /\ conv_in = None /\ conv_ret = NotCalled
    /\ builder = None /\ pe_in = None /\ pe_ret = NotCalled /\ pe_ok = FALSE
    /\ nonce_draw = None /\ built = None /\ steps = 0

encode ==
    /\ enc_calls < MaxEncodeCalls
    /\ enc_ret.kind # "Panic"
    /\ \E msg \in EncMsgs :
          LET e == encode_result(debug_assertions, msg, txbuf)
          IN  /\ txbuf' = e.buf
              /\ enc_ret' = e.ret
              /\ enc_msg' = Some([msg |-> msg, before |-> txbuf, after |-> e.buf])
    /\ enc_calls' = enc_calls + 1
    /\ UNCHANGED debug_assertions

\* The transport writes the output buffer to the socket and empties it.
Flush ==
    /\ txbuf # << >>
    /\ enc_ret.kind # "Panic"
    /\ txbuf' = << >>
    /\ UNCHANGED <<debug_assertions, enc_msg, enc_ret, enc_calls>>

(***************************************************************************)
(* Values of the protocol model (crate::asn1 and crate::proto, which the   *)
(* conversions and the builder of request.rs use)                          *)
(***************************************************************************)
\* KrbMessageType (asn1::constants::message_types), RFC 4120 section 7.5.7
KRB_AS_REQ == 10
KRB_AS_REP == 11
KRB_TGS_REQ == 12
KRB_TGS_REP == 13
KRB_ERROR == 30
KnownMsgTypes == {KRB_AS_REQ, KRB_AS_REP, KRB_TGS_REQ, KRB_TGS_REP,
                  14, 15, 20, 21, 22, KRB_ERROR}

\* KrbMessageType::try_from(u8)
KrbMessageType_try_from(t) ==
    IF t \in KnownMsgTypes THEN Ok(t) ELSE Err("InvalidEnumValue")

\* EncryptionType (asn1::constants::encryption_types), RFC 3961/3962 numbers
AES256_CTS_HMAC_SHA1_96 == 18
AES128_CTS_HMAC_SHA1_96 == 17
KnownEtypes == {1, 2, 3, 5, 7, 16, AES128_CTS_HMAC_SHA1_96,
                AES256_CTS_HMAC_SHA1_96, 19, 20, 23, 24}

\* EncryptionType::try_from(i32)
EncryptionType_try_from(e) ==
    IF e \in KnownEtypes THEN Ok(e) ELSE Err("InvalidEnumValue")

\* PaDataType (asn1::constants::pa_data_types)
PA_ENC_TIMESTAMP == 2
PA_FX_COOKIE == 133

\* der::DateTime::MAX_UNIX_DURATION (9999-12-31T23:59:59Z), scaled to the
\* model's range of times
MaxUnixSecs == 7200

\* KerberosTime::to_system_time: a wire time has whole seconds only
to_system_time(k) == [secs |-> k, nanos |-> 0]

\* KerberosTime::from_system_time: fails before the epoch and after the
\* last representable second; the sub-second part is not representable
from_system_time(t) ==
    IF t.secs < 0 \/ t.secs > MaxUnixSecs THEN Err("time") ELSE Ok(t.secs)

\* KerberosTime::from_unix_duration
from_unix_duration(secs) ==
    IF secs > MaxUnixSecs THEN Err("time") ELSE Ok(secs)

\* Ia5String / KerberosString::new accepts 7-bit characters only; NON_IA5
\* stands for a string holding a character outside that range
IsIa5(str) == str # "NON_IA5"

\* TryFrom<&Name> for (PrincipalName, Realm) and for PrincipalName
Name_to_wire(n) ==
    IF \A i \in 1..Len(n.comps) : IsIa5(n.comps[i])
        THEN IF IsIa5(n.realm)
            THEN Ok([pn |-> [name_type |-> n.name_type, name_string |-> n.comps],
                     realm |-> n.realm])
            ELSE Err("DerEncodeKerberosString")
        ELSE Err("DerEncodeKerberosString")

\* TryFrom<(PrincipalName, Realm)> for Name: a Name holds one or more
\* components
Name_from_cname(pn, realm) ==
    IF pn.name_string = << >>
        THEN Err("NameNotEnoughComponents")
        ELSE Ok([name_type |-> pn.name_type, comps |-> pn.name_string,
                 realm |-> realm])

\* TryFrom<PrincipalName> for Name: the realm of a service name is the last
\* component of the sname itself
Name_from_sname(pn) ==
    IF Len(pn.name_string) < 2
        THEN Err("NameNotEnoughComponents")
        ELSE Ok([name_type |-> pn.name_type,
                 comps |-> Take(pn.name_string, Len(pn.name_string) - 1),
                 realm |-> pn.name_string[Len(pn.name_string)]])

\* A byte string is kept with its length: [len, content]
Bytes(len, content) == [len |-> len, content |-> content]

\* der::Length::MAX, scaled to the model's byte strings: above the length
\* of a cookie and of an encrypted timestamp
MaxOctetLen == 20

\* OctetString::new: fails for data longer than DER can express
OctetString_new(data) ==
    IF data.len > MaxOctetLen THEN Err("der") ELSE Ok(data)

\* Preauth::default()
Preauth_default == [enc_timestamp |-> None, pa_fx_cookie |-> None]

\* A PA-DATA value: a cookie's bytes, the DER of an EncryptedData, or bytes
\* that are not the DER of the structure the type announces
PaValue(form, data) == [form |-> form, data |-> data]

\* TryFrom<Vec<PaData>> for Preauth: entry by entry; an entry whose payload
\* cannot be decoded fails with DerDecodePaData; other types are skipped
RECURSIVE Preauth_try_from(_, _)
Preauth_try_from(pavec, acc) ==
    IF pavec = << >> THEN Ok(acc)
    ELSE LET pa == Head(pavec)
         IN  IF pa.padata_type = PA_FX_COOKIE
                 THEN Preauth_try_from(Tail(pavec),
                          [acc EXCEPT !.pa_fx_cookie = Some(pa.padata_value.data)])
             ELSE IF pa.padata_type = PA_ENC_TIMESTAMP
                 THEN IF pa.padata_value.form # "EncryptedData"
                          THEN Err("DerDecodePaData")
                          ELSE Preauth_try_from(Tail(pavec),
                                   [acc EXCEPT !.enc_timestamp =
                                       Some([variant |-> "Aes256CtsHmacSha196",
                                             kvno |-> None,
                                             data |-> pa.padata_value.data])])
             ELSE Preauth_try_from(Tail(pavec), acc)

(***************************************************************************)
(* Conversions between the wire KDC-REQ and KerberosRequest                *)
(***************************************************************************)
\* a slip: every known algorithm is kept, supported or not
RECURSIVE filter_etypes_known(_)
filter_etypes_known(es) ==
    IF es = << >> THEN << >>
    ELSE LET t == EncryptionType_try_from(Head(es))
         IN  (IF t.kind = "Ok" THEN <<t.val>> ELSE << >>)
             \o filter_etypes_known(Tail(es))

\* request.rs:355-367: keep the wire etypes that are known and supported
RECURSIVE filter_etypes(_)
filter_etypes(es) ==
    IF es = << >> THEN << >>
    ELSE LET t == EncryptionType_try_from(Head(es))
         IN  (IF t.kind = "Ok" /\ t.val = AES256_CTS_HMAC_SHA1_96
                  THEN <<t.val>> ELSE << >>)
             \o filter_etypes(Tail(es))

\* request.rs:353-407: the KrbAsReq arm
as_req_to_request(req) ==
    LET etypes == filter_etypes(req.req_body.etype)
        preauth == IF IsSome(req.padata)
                       THEN Preauth_try_from(req.padata.val, Preauth_default)
                       ELSE Ok(Preauth_default)
    IN  IF preauth.kind = "Err" THEN preauth
    ELSE IF ~IsSome(req.req_body.cname) THEN Err("MissingClientName")
    ELSE LET client_name == Name_from_cname(req.req_body.cname.val,
                                            req.req_body.realm)
    IN  IF client_name.kind = "Err"
            THEN Panic("called Result::unwrap() on an Err value")
    ELSE IF ~IsSome(req.req_body.sname)
            THEN Err("MissingServiceNameWithRealm")
    ELSE LET service_name == Name_from_sname(req.req_body.sname.val)
    IN  IF service_name.kind = "Err" THEN service_name
    ELSE Ok([variant |-> "Authentication",
             nonce |-> req.req_body.nonce,
             client_name |-> client_name.val,
             service_name |-> service_name.val,
             from |-> IF IsSome(req.req_body.from)
                          THEN Some(to_system_time(req.req_body.from.val))
                          ELSE None,
             until |-> to_system_time(req.req_body.till),
             renew |-> IF IsSome(req.req_body.rtime)
                           THEN Some(to_system_time(req.req_body.rtime.val))
                           ELSE None,
             etypes |-> etypes,
             preauth |-> preauth.val])

\* a slip in the match: every known type but TGS-REQ is taken as a request
match_msg_type_any_request(msg_type, req) ==
    IF msg_type = KRB_TGS_REQ THEN Panic("not yet implemented")
    ELSE as_req_to_request(req)

\* request.rs:352-412: match msg_type
match_msg_type(msg_type, req) ==
    IF msg_type = KRB_AS_REQ THEN as_req_to_request(req)
    ELSE IF msg_type = KRB_TGS_REQ THEN Panic("not yet implemented")
    ELSE Err("InvalidMessageDirection")

\* a slip in the order of the checks: the message type before the version
try_from_KdcReq_type_first(req) ==
    LET msg_type == KrbMessageType_try_from(req.msg_type)
    IN  IF msg_type.kind = "Err" THEN Err("InvalidMessageType")
        ELSE IF req.pvno # 5 THEN Err("InvalidPvno")
        ELSE match_msg_type(msg_type.val, req)

\* request.rs:340-414, impl TryFrom<KdcReq> for KerberosRequest
try_from_KdcReq(req) ==
    IF req.pvno # 5 THEN Err("InvalidPvno")
    ELSE LET msg_type == KrbMessageType_try_from(req.msg_type)
         IN  IF msg_type.kind = "Err" THEN Err("InvalidMessageType")
             ELSE match_msg_type(msg_type.val, req)

\* request.rs:200-210, impl TryFrom<KrbKdcReq> for KerberosRequest
try_from_KrbKdcReq(k) == try_from_KdcReq(k.req)

\* a slip: the cookie is not put on the wire
padata_of_no_cookie(preauth) ==
    IF IsSome(preauth.enc_timestamp)
    THEN LET ts == OctetString_new(preauth.enc_timestamp.val.data)
         IN  IF ts.kind = "Err"
                 THEN Err("DerEncodeOctetString")
                 ELSE Ok(Some(<<[padata_type |-> PA_ENC_TIMESTAMP,
                                 padata_value |-> PaValue("EncryptedData",
                                                          ts.val)]>>))
    ELSE Ok(None)

\* a slip: the encrypted timestamp is pushed before the cookie
padata_of_ts_first(preauth) ==
    IF IsSome(preauth.pa_fx_cookie) \/ IsSome(preauth.enc_timestamp)
    THEN LET ck == IF IsSome(preauth.pa_fx_cookie)
                       THEN OctetString_new(preauth.pa_fx_cookie.val)
                       ELSE Ok(<< >>)
             ts == IF IsSome(preauth.enc_timestamp)
                       THEN OctetString_new(preauth.enc_timestamp.val.data)
                       ELSE Ok(<< >>)
         IN  IF ck.kind = "Err" \/ ts.kind = "Err"
                 THEN Err("DerEncodeOctetString")
                 ELSE Ok(Some(
                     (IF IsSome(preauth.enc_timestamp)
                          THEN <<[padata_type |-> PA_ENC_TIMESTAMP,
                                  padata_value |-> PaValue("EncryptedData", ts.val)]>>
                          ELSE << >>)
                     \o
                     (IF IsSome(preauth.pa_fx_cookie)
                          THEN <<[padata_type |-> PA_FX_COOKIE,
                                  padata_value |-> PaValue("Cookie", ck.val)]>>
                          ELSE << >>)))
    ELSE Ok(None)

\* request.rs:104-156: the wire pre-auth list of a request
padata_of(preauth) ==
    IF IsSome(preauth.pa_fx_cookie) \/ IsSome(preauth.enc_timestamp)
    THEN LET ck == IF IsSome(preauth.pa_fx_cookie)
                       THEN OctetString_new(preauth.pa_fx_cookie.val)
                       ELSE Ok(<< >>)
             ts == IF IsSome(preauth.enc_timestamp)
                       THEN OctetString_new(preauth.enc_timestamp.val.data)
                       ELSE Ok(<< >>)
         IN  IF ck.kind = "Err" \/ ts.kind = "Err"
                 THEN Err("DerEncodeOctetString")
                 ELSE Ok(Some(
                     (IF IsSome(preauth.pa_fx_cookie)
                          THEN <<[padata_type |-> PA_FX_COOKIE,
                                  padata_value |-> PaValue("Cookie", ck.val)]>>
                          ELSE << >>)
                     \o
                     (IF IsSome(preauth.enc_timestamp)
                          THEN <<[padata_type |-> PA_ENC_TIMESTAMP,
                                  padata_value |-> PaValue("EncryptedData", ts.val)]>>
                          ELSE << >>)))
    ELSE Ok(None)

\* Option<SystemTime>::map(|t| KerberosTime::from_system_time(t).expect(..))
opt_time_to_wire(ot) ==
    IF IsSome(ot)
        THEN LET k == from_system_time(ot.val)
             IN  IF k.kind = "Err" THEN k ELSE Ok(Some(k.val))
        ELSE Ok(None)

\* the realm of a service name travels as the last component of its sname
sname_of(pn, realm) == [pn EXCEPT !.name_string = @ \o <<realm>>]

\* request.rs:89-198, impl TryInto<KrbKdcReq> for KerberosRequest
try_into_KrbKdcReq(r) ==
    IF r.variant = "TicketGrant" THEN Panic("not yet implemented")
    ELSE LET padata == padata_of(r.preauth)
    IN  IF padata.kind = "Err" THEN padata
    ELSE LET cname == Name_to_wire(r.client_name)
    IN  IF cname.kind = "Err"
            THEN Panic("called Result::unwrap() on an Err value")
    ELSE LET sname == Name_to_wire(r.service_name)
    IN  IF sname.kind = "Err"
            THEN Panic("called Result::unwrap() on an Err value")
    ELSE LET from == opt_time_to_wire(r.from)
             till == from_system_time(r.until)
             rtime == opt_time_to_wire(r.renew)
    IN  IF from.kind = "Err" \/ till.kind = "Err" \/ rtime.kind = "Err"
            THEN Panic("Failed to build KerberosTime from SystemTime")
    ELSE Ok([variant |-> "AsReq",
             req |-> [pvno |-> 5,
                      msg_type |-> KRB_AS_REQ,
                      padata |-> padata.val,
                      req_body |-> [cname |-> Some(cname.val.pn),
                                    realm |-> cname.val.realm,
                                    sname |-> Some(sname_of(sname.val.pn,
                                                            sname.val.realm)),
                                    from |-> from.val,
                                    till |-> till.val,
                                    rtime |-> rtime.val,
                                    nonce |-> r.nonce,
                                    etype |-> r.etypes]]])

(***************************************************************************)
(* Crypto subsystem (crate::crypto), abstracted: a key is what it was      *)
(* derived from, a ciphertext is what was encrypted under which key        *)
(***************************************************************************)
\* REJECTED stands for a passphrase whose derived material fails validation
KeyRejected(passphrase) == passphrase = "REJECTED"

derive_key_external_salt_aes256_cts_hmac_sha1_96(passphrase, salt, iter_count) ==
    IF KeyRejected(passphrase) THEN Err("InvalidHmacSha1Key")
    ELSE Ok([passphrase |-> passphrase, salt |-> salt, iter_count |-> iter_count])

\* the salt is the realm followed by the principal name
derive_key_aes256_cts_hmac_sha1_96(passphrase, realm, cname, iter_count) ==
    derive_key_external_salt_aes256_cts_hmac_sha1_96(passphrase,
                                                     <<realm, cname>>, iter_count)

\* the ciphertext carries a 12-byte integrity tag
encrypt_aes256_cts_hmac_sha1_96(key, data, key_usage) ==
    IF data.len = 0 THEN Err("PlaintextEmpty")
    ELSE Ok(Bytes(data.len + 12,
                  [key |-> key, plain |-> data.content, usage |-> key_usage]))

\* PaEncTsEnc::to_der
PaEncTsEnc_to_der(paenctsenc) == Ok(Bytes(4, paenctsenc))

\* Name::principal_name: the name and realm of a user principal
principal_name(n) ==
    IF n.name_type = 1 THEN Ok([cname |-> n.comps[1], realm |-> n.realm])
    ELSE Err("NameNotPrincipal")

(***************************************************************************)
(* KerberosAuthenticationBuilder                                           *)
(***************************************************************************)
\* request.rs:70-86, KerberosRequest::build_as
build_as(client_name, service_name, until) ==
    [client_name |-> client_name,
     service_name |-> service_name,
     from |-> None,
     until |-> until,
     renew |-> None,
     preauth |-> None,
     etypes |-> <<AES256_CTS_HMAC_SHA1_96>>]

\* request.rs:213-216
builder_from(self, from) == [self EXCEPT !.from = from]

\* request.rs:218-221
renew_until(self, renew) == [self EXCEPT !.renew = renew]

\* a slip: first() for last()
select_einfo2_first(etype_info2) ==
    IF etype_info2 = << >> THEN None ELSE Some(etype_info2[1])

\* request.rs:235: pa_data.etype_info2.last()
select_einfo2(etype_info2) ==
    IF etype_info2 = << >> THEN None ELSE Some(etype_info2[Len(etype_info2)])

\* a slip: the length of s2kparams is not checked
s2k_iter_count_unchecked(einfo2) ==
    IF IsSome(einfo2.s2kparams) THEN Ok(Some(einfo2.s2kparams.val)) ELSE Ok(None)

\* request.rs:262-272: the iteration count of the selected entry
s2k_iter_count(einfo2) ==
    IF IsSome(einfo2.s2kparams)
        THEN IF Len(einfo2.s2kparams.val) # 4
                 THEN Err("PreauthInvalidS2KParams")
                 ELSE Ok(Some(einfo2.s2kparams.val))
        ELSE Ok(None)

\* request.rs:223-307.  Ok carries the builder; on Err the builder, taken by
\* value, is gone.
preauth_enc_ts(self, pa_data, passphrase, epoch_seconds) ==
    IF ~pa_data.enc_timestamp THEN Err("PreauthUnsupported")
    ELSE LET last == select_einfo2(pa_data.etype_info2)
    IN  IF ~IsSome(last) THEN Err("PreauthMissingEtypeInfo2")
    ELSE LET einfo2 == last.val
             key_usage == 1
             usecs == epoch_seconds.micros
             patimestamp == from_unix_duration(epoch_seconds.secs)
    IN  IF patimestamp.kind = "Err" THEN Err("PreauthInvalidUnixTs")
    ELSE LET data == PaEncTsEnc_to_der([patimestamp |-> patimestamp.val,
                                        pausec |-> Some(usecs)])
    IN  IF data.kind = "Err" THEN Err("DerEncodePaEncTsEnc")
    ELSE IF einfo2.etype = AES256_CTS_HMAC_SHA1_96 THEN
        LET iter_count == s2k_iter_count(einfo2)
        IN  IF iter_count.kind = "Err" THEN iter_count
        ELSE LET pn == principal_name(self.client_name)
                 base_key ==
                     IF IsSome(einfo2.salt)
                         THEN derive_key_external_salt_aes256_cts_hmac_sha1_96(
                                  passphrase, einfo2.salt.val, iter_count.val)
                     ELSE IF pn.kind = "Err" THEN pn
                     ELSE derive_key_aes256_cts_hmac_sha1_96(
                              passphrase, pn.val.realm, pn.val.cname,
                              iter_count.val)
        IN  IF base_key.kind = "Err" THEN base_key
        ELSE LET enc == encrypt_aes256_cts_hmac_sha1_96(base_key.val, data.val,
                                                        key_usage)
        IN  IF enc.kind = "Err" THEN enc
        ELSE Ok([self EXCEPT !.preauth =
                    Some([enc_timestamp |->
                              Some([variant |-> "Aes256CtsHmacSha196",
                                    kvno |-> None, data |-> enc.val]),
                          pa_fx_cookie |-> pa_data.pa_fx_cookie])])
    ELSE Err("UnsupportedEncryption")

\* 0x7fff_ffff
NONCE_MASK == <<127, 255, 255, 255>>

\* a slip: the drawn value is used as it is
mask_nonce_none(draw) == draw

\* request.rs:322-323: the nonce kept from the drawn 32-bit value
mask_nonce(draw) == U32And(draw, NONCE_MASK)

\* a slip: the builder's pre-auth material is not carried into the request
build_default_preauth(self, draw) ==
    [variant |-> "Authentication",
     nonce |-> mask_nonce(draw),
     client_name |-> self.client_name,
     service_name |-> self.service_name,
     from |-> self.from,
     until |-> self.until,
     renew |-> self.renew,
     preauth |-> Preauth_default,
     etypes |-> self.etypes]

\* request.rs:309-337
build(self, draw) ==
    [variant |-> "Authentication",
     nonce |-> mask_nonce(draw),
     client_name |-> self.client_name,
     service_name |-> self.service_name,
     from |-> self.from,
     until |-> self.until,
     renew |-> self.renew,
     preauth |-> IF IsSome(self.preauth) THEN self.preauth.val
                 ELSE Preauth_default,
     etypes |-> self.etypes]

(***************************************************************************)
(* Inputs of the conversions                                               *)
(***************************************************************************)
\* a ciphertext as preauth_enc_ts produces it
SampleCipher ==
    encrypt_aes256_cts_hmac_sha1_96(
        [passphrase |-> "password", salt |-> <<"EXAMPLE.COM", "alice">>,
         iter_count |-> None],
        Bytes(4, [patimestamp |-> 60, pausec |-> Some(5)]), 1).val

SampleCookie == Bytes(2, <<1, 2>>)
BigCookie == Bytes(MaxOctetLen + 1, <<9>>)

WireCookie == [padata_type |-> PA_FX_COOKIE,
               padata_value |-> PaValue("Cookie", SampleCookie)]
WireEncTs == [padata_type |-> PA_ENC_TIMESTAMP,
              padata_value |-> PaValue("EncryptedData", SampleCipher)]
WireBadEncTs == [padata_type |-> PA_ENC_TIMESTAMP,
                 padata_value |-> PaValue("Garbage", Bytes(1, <<0>>))]

\* req.padata: absent, empty, cookie, cookie + timestamp, undecodable entry
PadataSamples == << None, Some(<< >>), Some(<<WireCookie>>),
                    Some(<<WireCookie, WireEncTs>>), Some(<<WireBadEncTs>>) >>

PvnoSamples == {4, 5}
MsgTypeSamples == {0, KRB_AS_REQ, KRB_AS_REP, KRB_TGS_REQ, KRB_TGS_REP,
                   KRB_ERROR, 99}
CnameSamples == { None,
                  Some([name_type |-> 1, name_string |-> <<"alice">>]),
                  Some([name_type |-> 1, name_string |-> << >>]) }
SnameSamples == { None,
                  Some([name_type |-> 2, name_string |-> <<"krbtgt", "EXAMPLE.COM">>]),
                  Some([name_type |-> 2, name_string |-> <<"krbtgt">>]) }
WireTimeSamples == {60, 3600}
WireNonceSamples == { <<0, 0, 0, 7>>, <<128, 0, 0, 7>> }
WireEtypeSamples == { <<AES256_CTS_HMAC_SHA1_96>>,
                      <<AES128_CTS_HMAC_SHA1_96, AES256_CTS_HMAC_SHA1_96>>,
                      <<AES256_CTS_HMAC_SHA1_96, 99, AES256_CTS_HMAC_SHA1_96>>,
                      <<23>> }

\* domain values handed to the domain -> wire conversion
NameSamples == { [name_type |-> 1, comps |-> <<"alice">>, realm |-> "EXAMPLE.COM"],
                 [name_type |-> 1, comps |-> <<"NON_IA5">>, realm |-> "EXAMPLE.COM"] }
ServiceSamples == { [name_type |-> 2, comps |-> <<"krbtgt">>, realm |-> "EXAMPLE.COM"],
                    [name_type |-> 2, comps |-> <<"krbtgt">>, realm |-> "NON_IA5"] }
\* a whole second, a time with a sub-second part, a time before the epoch
SystemTimeSamples == { [secs |-> 3600, nanos |-> 0], [secs |-> 3600, nanos |-> 5],
                       [secs |-> -1, nanos |-> 0] }
PreauthSamples ==
    << Preauth_default,
       [enc_timestamp |-> None, pa_fx_cookie |-> Some(SampleCookie)],
       [enc_timestamp |-> Some([variant |-> "Aes256CtsHmacSha196",
                                kvno |-> None, data |-> SampleCipher]),
        pa_fx_cookie |-> Some(SampleCookie)],
       [enc_timestamp |-> Some([variant |-> "Aes256CtsHmacSha196",
                                kvno |-> None, data |-> SampleCipher]),
        pa_fx_cookie |-> None],
       [enc_timestamp |-> None, pa_fx_cookie |-> Some(BigCookie)] >>

InitConv ==
    /\ conv_in = None
    /\ conv_ret = NotCalled
    \* the other parts of the library are not in use
    /\ wire = << >> /\ payloads = << >> /\ net = << >>
    /\ rxbuf = << >> /\ dlog = << >>
    /\ debug_assertions = FALSE /\ txbuf = << >> /\ enc_msg = None
    /\ enc_ret = NotCalled /\ enc_calls = 0
    /\ builder = None /\ pe_in = None /\ pe_ret = NotCalled /\ pe_ok = FALSE
    /\ nonce_draw = None /\ built = None /\ steps = 0

\* KerberosRequest::try_from(KrbKdcReq) on a decoded wire request.  The
\* conversions are pure: a behaviour is one call on one input.
ConvertFromWire ==
    /\ conv_ret.kind = "NotCalled"
    /\ \E variant \in {"AsReq", "TgsReq"}, pvno \in PvnoSamples,
       msg_type \in MsgTypeSamples, p \in DOMAIN PadataSamples,
       cname \in CnameSamples, sname \in SnameSamples,
       from \in {None, Some(60)}, rtime \in {None, Some(3600)},
       nonce \in WireNonceSamples, etype \in WireEtypeSamples :
        LET k == [variant |-> variant,
                  req |-> [pvno |-> pvno, msg_type |-> msg_type,
                           padata |-> PadataSamples[p],
                           req_body |-> [cname |-> cname,
                                         realm |-> "EXAMPLE.COM",
                                         sname |-> sname,
                                         from |-> from,
                                         till |-> 3600,
                                         rtime |-> rtime,
                                         nonce |-> nonce,
                                         etype |-> etype]]]
        IN  /\ conv_in' = [op |-> "try_from", wire |-> k]
            /\ conv_ret' = try_from_KrbKdcReq(k)

\* KerberosRequest::try_into() on a domain request
ConvertToWire ==
    /\ conv_ret.kind = "NotCalled"
    /\ \E nonce \in WireNonceSamples, client_name \in NameSamples,
          service_name \in ServiceSamples,
          from \in {None} \cup {Some(t) : t \in SystemTimeSamples},
          until \in SystemTimeSamples,
          renew \in {None, Some([secs |-> 3600, nanos |-> 0]),
                     Some([secs |-> MaxUnixSecs + 1, nanos |-> 0])},
          p \in DOMAIN PreauthSamples :
        LET r == [variant |-> "Authentication", nonce |-> nonce,
                  client_name |-> client_name, service_name |-> service_name,
                  from |-> from, until |-> until, renew |-> renew,
                  preauth |-> PreauthSamples[p],
                  etypes |-> <<AES256_CTS_HMAC_SHA1_96>>]
        IN  /\ conv_in' = [op |-> "try_into", request |-> r]
            /\ conv_ret' = try_into_KrbKdcReq(r)

\* KerberosRequest::TicketGrant {} .try_into()
ConvertTicketGrant ==
    /\ conv_ret.kind = "NotCalled"
    /\ conv_in' = [op |-> "try_into", request |-> [variant |-> "TicketGrant"]]
    /\ conv_ret' = try_into_KrbKdcReq([variant |-> "TicketGrant"])

\* A request built without pre-auth (build_as, from, renew_until, build),
\* converted to the wire twice, and the first wire message converted back.
RoundTrip ==
    /\ conv_ret.kind = "NotCalled"
    /\ \E client_name \in NameSamples, service_name \in ServiceSamples,
          from \in {None} \cup {Some(t) : t \in SystemTimeSamples},
          until \in SystemTimeSamples,
          renew \in {None, Some([secs |-> 3600, nanos |-> 0]),
                     Some([secs |-> MaxUnixSecs + 1, nanos |-> 0])},
          draw \in WireNonceSamples :
        LET r == build(renew_until(builder_from(
                           build_as(client_name, service_name, until),
                           from), renew), draw)
            wire1 == try_into_KrbKdcReq(r)
            wire2 == try_into_KrbKdcReq(r)
        IN  /\ conv_in' = [op |-> "round_trip", request |-> r]
            /\ conv_ret' = [kind |-> "RoundTrip",
                            wire1 |-> wire1,
                            wire2 |-> wire2,
                            back |-> IF wire1.kind = "Ok"
                                         THEN try_from_KrbKdcReq(wire1.val)
                                         ELSE NotCalled]

(***************************************************************************)
(* Builder: inputs and calls                                               *)
(***************************************************************************)
MaxSteps == 3

\* a user principal, and a name that is not one
ClientSamples == { [name_type |-> 1, comps |-> <<"alice">>, realm |-> "EXAMPLE.COM"],
                   [name_type |-> 2, comps |-> <<"host">>, realm |-> "EXAMPLE.COM"] }
KrbTgt == [name_type |-> 2, comps |-> <<"krbtgt">>, realm |-> "EXAMPLE.COM"]

\* ETYPE-INFO2 entries: supported with defaults; supported with an external
\* salt and a 4-byte iteration count; supported with a 2-byte s2kparams;
\* an algorithm the library knows and does not support
EInfo2Samples ==
    { [etype |-> AES256_CTS_HMAC_SHA1_96, salt |-> None, s2kparams |-> None],
      [etype |-> AES256_CTS_HMAC_SHA1_96, salt |-> Some(<<"ext">>),
       s2kparams |-> Some(<<0, 0, 16, 0>>)],
      [etype |-> AES256_CTS_HMAC_SHA1_96, salt |-> None,
       s2kparams |-> Some(<<1, 2>>)],
      [etype |-> AES128_CTS_HMAC_SHA1_96, salt |-> Some(<<"old">>),
       s2kparams |-> None] }

MaxEInfo2 == 2
EInfo2Lists == UNION { [1..n -> EInfo2Samples] : n \in 0..MaxEInfo2 }

CookieSamples == << None, Some(SampleCookie) >>
PassphraseSamples == {"password", "REJECTED"}
\* a timestamp with a sub-second part; one past the last wire time
EpochSamples == { [secs |-> 60, micros |-> 5],
                  [secs |-> MaxUnixSecs + 1, micros |-> 0] }
\* values thread_rng().gen::<u32>() may return
DrawSamples == { <<0, 0, 0, 0>>, <<0, 0, 0, 1>>, <<127, 255, 255, 255>>,
                 <<128, 0, 0, 0>>, <<128, 0, 0, 1>>, <<200, 17, 34, 51>>,
                 <<255, 255, 255, 255>> }
OptTimeSamples == {None, Some([secs |-> 60, nanos |-> 0])}

InitBuilder ==
    /\ \E c \in ClientSamples :
          builder = Some(build_as(c, KrbTgt, [secs |-> 3600, nanos |-> 0]))
    /\ pe_in = None
    /\ pe_ret = NotCalled
    /\ pe_ok = FALSE
    /\ nonce_draw = None
    /\ built = None
    /\ steps = 0
    \* the other parts of the library are not in use
    /\ wire = << >> /\ payloads = << >> /\ net = << >>
    /\ rxbuf = << >> /\ dlog = << >>
    /\ debug_assertions = FALSE /\ txbuf = << >> /\ enc_msg = None
    /\ enc_ret = NotCalled /\ enc_calls = 0
    /\ conv_in = None /\ conv_ret = NotCalled

CallFrom ==
    /\ IsSome(builder) /\ steps < MaxSteps
    /\ \E t \in OptTimeSamples : builder' = Some(builder_from(builder.val, t))
    /\ steps' = steps + 1
    /\ UNCHANGED <<pe_in, pe_ret, pe_ok, nonce_draw, built>>

CallRenewUntil ==
    /\ IsSome(builder) /\ steps < MaxSteps
    /\ \E t \in OptTimeSamples : builder' = Some(renew_until(builder.val, t))
    /\ steps' = steps + 1
    /\ UNCHANGED <<pe_in, pe_ret, pe_ok, nonce_draw, built>>

CallPreauthEncTs ==
    /\ IsSome(builder) /\ steps < MaxSteps
    /\ \E enc_timestamp \in BOOLEAN, etype_info2 \in EInfo2Lists,
          c \in DOMAIN CookieSamples, passphrase \in PassphraseSamples,
          epoch_seconds \in EpochSamples :
        LET pa_data == [enc_timestamp |-> enc_timestamp,
                        etype_info2 |-> etype_info2,
                        pa_fx_cookie |-> CookieSamples[c]]
            r == preauth_enc_ts(builder.val, pa_data, passphrase, epoch_seconds)
        IN  /\ pe_in' = Some([self |-> builder.val, pa_data |-> pa_data,
                              passphrase |-> passphrase,
                              epoch_seconds |-> epoch_seconds])
            /\ pe_ret' = r
            /\ builder' = IF r.kind = "Ok" THEN Some(r.val) ELSE None
            /\ pe_ok' = (pe_ok \/ r.kind = "Ok")
    /\ steps' = steps + 1
    /\ UNCHANGED <<nonce_draw, built>>

\* build() may be called at any point; it ends the builder
CallBuild ==
    /\ IsSome(builder)
    /\ \E draw \in DrawSamples :
          /\ nonce_draw' = Some(draw)
          /\ built' = Some(build(builder.val, draw))
    /\ builder' = None
    /\ UNCHANGED <<pe_in, pe_ret, pe_ok, steps>>

(***************************************************************************)
(* Specifications                                                          *)
(***************************************************************************)
NextDecode ==
    \/ Deliver /\ UNCHANGED <<encodeVars, convVars, builderVars>>
    \/ decode /\ UNCHANGED <<encodeVars, convVars, builderVars>>

SpecDecode ==
    InitDecode /\ [][NextDecode]_vars

NextEncode ==
    \/ encode /\ UNCHANGED <<decodeVars, convVars, builderVars>>
    \/ Flush /\ UNCHANGED <<decodeVars, convVars, builderVars>>

SpecEncode ==
    InitEncode /\ [][NextEncode]_vars

NextConv ==
    \/ ConvertFromWire /\ UNCHANGED <<decodeVars, encodeVars, builderVars>>
    \/ ConvertToWire /\ UNCHANGED <<decodeVars, encodeVars, builderVars>>
    \/ ConvertTicketGrant /\ UNCHANGED <<decodeVars, encodeVars, builderVars>>
    \/ RoundTrip /\ UNCHANGED <<decodeVars, encodeVars, builderVars>>

SpecConv ==
    InitConv /\ [][NextConv]_vars

NextBuilder ==
    \/ CallFrom /\ UNCHANGED <<decodeVars, encodeVars, convVars>>
    \/ CallRenewUntil /\ UNCHANGED <<decodeVars, encodeVars, convVars>>
    \/ CallPreauthEncTs /\ UNCHANGED <<decodeVars, encodeVars, convVars>>
    \/ CallBuild /\ UNCHANGED <<decodeVars, encodeVars, convVars>>

SpecBuilder ==
    InitBuilder /\ [][NextBuilder]_vars

(***************************************************************************)
(* Properties                                                              *)
(***************************************************************************)

\* ---- C1 (SpecDecode) -------------------------------------------------
\* The schedule of the claim: one well-formed record, delivered in two
\* pieces split inside the header or inside the payload, decode called
\* once after each piece.
C1_Schedule ==
    /\ Len(payloads) = 1
    /\ from_der(payloads[1]).kind = "Ok"
    /\ Len(dlog) >= 1
    /\ dlog[1].arrived \in 1..(Len(wire) - 1)
    /\ dlog[1].arrived # 4
    /\ Len(dlog) >= 2 => dlog[2].arrived = Len(wire)

\* C1: partial delivery.  The decode call made before the last byte has
\* arrived yields neither a response nor an error (it is Ok(None)), and
\* the call made once all bytes have arrived yields the record's response.
C1_PartialDelivery ==
    C1_Schedule =>
        /\ dlog[1].ret.kind = "Ok" /\ dlog[1].ret.val.kind = "None"
        /\ Len(dlog) >= 2 =>
              /\ dlog[2].ret.kind = "Ok"
              /\ dlog[2].ret.val.kind = "Some"
              /\ dlog[2].ret.val.val = from_der(payloads[1]).val

\* ---- C2 (SpecEncode) -------------------------------------------------
\* C2: size limit on encode.  In every build configuration, a message
\* whose DER serialization is longer than max_size ends encode in an error
\* and leaves the output buffer as it was.
C2_EncodeSizeLimit ==
    ( /\ IsSome(enc_msg)
      /\ enc_msg.val.before = << >>
      /\ enc_msg.val.msg.to_der.kind = "Ok"
      /\ Len(enc_msg.val.msg.to_der.val) > max_size )
    => /\ enc_ret.kind = "Err"
       /\ enc_msg.val.after = enc_msg.val.before

\* ---- C3 (SpecDecode) -------------------------------------------------
\* C3: malformed input is surfaced.  A decode call that reads a complete
\* record whose payload is not the DER of a KerberosResponse returns Err.
C3_MalformedIsError ==
    \A i \in 1..Len(dlog) :
        LET rr == ReadRecord(dlog[i].before, << >>)
        IN  (rr.kind = "Record" /\ from_der(rr.record).kind = "Err")
                => dlog[i].ret.kind = "Err"

\* ---- C4 (SpecConv) ---------------------------------------------------
ConvCalled == conv_ret.kind # "NotCalled"
FromWire == ConvCalled /\ conv_in.op = "try_from"
ToWire == ConvCalled /\ conv_in.op = "try_into"

\* C4: unimplemented TGS paths fail explicitly.  Converting a wire KDC-REQ
\* with pvno 5 and message type TGS-REQ, and converting a TicketGrant
\* request to its wire form, each return an error value.
C4_TgsFailsExplicitly ==
    /\ ( FromWire /\ conv_in.wire.req.pvno = 5
                  /\ conv_in.wire.req.msg_type = KRB_TGS_REQ )
           => conv_ret.kind = "Err"
    /\ ( ToWire /\ conv_in.request.variant = "TicketGrant" )
           => conv_ret.kind = "Err"

\* ---- C5 (SpecBuilder) ------------------------------------------------
\* C5: nonce bound.  Every built request has nonce < 2^31: the top bit of
\* the 32-bit value is zero and the low 31 bits are those of the drawn
\* value.
C5_NonceBound ==
    IsSome(built) =>
        /\ built.val.nonce[1] < 128
        /\ built.val.nonce[1] = nonce_draw.val[1] % 128
        /\ \A i \in 2..4 : built.val.nonce[i] = nonce_draw.val[i]

\* a request was built from a draw with the top bit set
C5_Witness == IsSome(built) /\ nonce_draw.val[1] >= 128

\* ---- C6 (SpecConv) ---------------------------------------------------
\* C6: protocol version check.  A wire KDC-REQ whose pvno is not 5 fails
\* with InvalidPvno, whatever its other fields hold.
C6_PvnoFirst ==
    (FromWire /\ conv_in.wire.req.pvno # 5)
        => (conv_ret.kind = "Err" /\ conv_ret.err = "InvalidPvno")

\* pvno 4 on a message that would fail other checks too: an unknown message
\* type, no cname
C6_Witness ==
    /\ FromWire
    /\ conv_in.wire.req.pvno = 4
    /\ conv_in.wire.req.msg_type = 99
    /\ ~IsSome(conv_in.wire.req.req_body.cname)
    /\ conv_ret.kind = "Err"

\* ---- C7 (SpecConv) ---------------------------------------------------
PadataDecodable(req) ==
    IsSome(req.padata) =>
        Preauth_try_from(req.padata.val, Preauth_default).kind = "Ok"

\* C7: missing mandatory names.  An AS-REQ with pvno 5 and decodable
\* pre-auth data fails with MissingClientName when cname is absent, and
\* with the missing-service-name kind when cname is present and sname is
\* absent.
C7_MissingNames ==
    ( /\ FromWire
      /\ conv_in.wire.req.pvno = 5
      /\ conv_in.wire.req.msg_type = KRB_AS_REQ
      /\ PadataDecodable(conv_in.wire.req) )
    => /\ ~IsSome(conv_in.wire.req.req_body.cname)
             => (conv_ret.kind = "Err" /\ conv_ret.err = "MissingClientName")
       /\ ( IsSome(conv_in.wire.req.req_body.cname)
            /\ ~IsSome(conv_in.wire.req.req_body.sname) )
             => ( conv_ret.kind = "Err"
                  /\ conv_ret.err = "MissingServiceNameWithRealm" )

\* ---- C8 (SpecConv) ---------------------------------------------------
\* C8: message type and direction.  With pvno 5, an unknown msg_type fails
\* with InvalidMessageType, a known type other than AS-REQ and TGS-REQ
\* fails with InvalidMessageDirection, and only AS-REQ yields an
\* Authentication request.
C8_MessageTypeAndDirection ==
    (FromWire /\ conv_in.wire.req.pvno = 5) =>
        /\ conv_in.wire.req.msg_type \notin KnownMsgTypes
              => (conv_ret.kind = "Err" /\ conv_ret.err = "InvalidMessageType")
        /\ conv_in.wire.req.msg_type \in
                  KnownMsgTypes \ {KRB_AS_REQ, KRB_TGS_REQ}
              => ( conv_ret.kind = "Err"
                   /\ conv_ret.err = "InvalidMessageDirection" )
        /\ conv_ret.kind = "Ok" => conv_in.wire.req.msg_type = KRB_AS_REQ

\* an AS-REP with pvno 5 and complete names was refused
C8_Witness ==
    /\ FromWire
    /\ conv_in.wire.req.pvno = 5
    /\ conv_in.wire.req.msg_type = KRB_AS_REP
    /\ IsSome(conv_in.wire.req.req_body.cname)
    /\ IsSome(conv_in.wire.req.req_body.sname)
    /\ conv_ret.kind = "Err"

\* ---- C9, C10 (SpecBuilder) -------------------------------------------
PeCalled == pe_ret.kind # "NotCalled"
PeList == pe_in.val.pa_data.etype_info2
PeLast == PeList[Len(PeList)]
Supported(e) == e.etype = AES256_CTS_HMAC_SHA1_96

\* the conditions the claim names, read off the arguments of the call
PeNoEncTimestamp == ~pe_in.val.pa_data.enc_timestamp
PeNoEntries == PeList = << >>
PeBadS2K ==
    /\ PeList # << >>
    /\ IsSome(PeLast.s2kparams)
    /\ Len(PeLast.s2kparams.val) # 4
PeBadTimestamp == pe_in.val.epoch_seconds.secs > MaxUnixSecs

\* what else can fail the call, for a given entry: its algorithm is not
\* supported, the key material is rejected, the entry has no salt and the
\* client name is not a user principal
PeOtherFailure(e) ==
    \/ ~Supported(e)
    \/ KeyRejected(pe_in.val.passphrase)
    \/ (~IsSome(e.salt) /\ pe_in.val.self.client_name.name_type # 1)
PeNoOtherFailure == PeList # << >> => ~PeOtherFailure(PeLast)

PeFailsWith(e) ==
    /\ pe_ret.kind = "Err" /\ pe_ret.err = e
    /\ ~IsSome(builder)

\* C9: preauth_enc_ts error kinds.  When it is the only violated condition,
\* the call fails with PreauthUnsupported if enc_timestamp is false, with
\* PreauthMissingEtypeInfo2 if etype_info2 is empty, with
\* PreauthInvalidS2KParams if the selected entry's s2kparams is present and
\* not 4 bytes long, with PreauthInvalidUnixTs if the timestamp is not
\* representable; in each case no builder is returned.
C9_PreauthErrorKinds ==
    (PeCalled /\ PeNoOtherFailure) =>
        /\ (PeNoEncTimestamp /\ ~PeNoEntries /\ ~PeBadS2K /\ ~PeBadTimestamp)
              => PeFailsWith("PreauthUnsupported")
        /\ (~PeNoEncTimestamp /\ PeNoEntries /\ ~PeBadS2K /\ ~PeBadTimestamp)
              => PeFailsWith("PreauthMissingEtypeInfo2")
        /\ (~PeNoEncTimestamp /\ ~PeNoEntries /\ PeBadS2K /\ ~PeBadTimestamp)
              => PeFailsWith("PreauthInvalidS2KParams")
        /\ (~PeNoEncTimestamp /\ ~PeNoEntries /\ ~PeBadS2K /\ PeBadTimestamp)
              => PeFailsWith("PreauthInvalidUnixTs")

\* the call was refused for a 2-byte s2kparams and nothing else
C9_Witness ==
    /\ PeCalled
    /\ ~PeNoEncTimestamp /\ ~PeNoEntries /\ PeBadS2K /\ ~PeBadTimestamp
    /\ PeNoOtherFailure
    /\ PeFailsWith("PreauthInvalidS2KParams")

\* the key a successful call derived
PeKey == pe_ret.val.preauth.val.enc_timestamp.val.data.content.key

\* the salt the key derivation takes for an entry
SaltFor(e) ==
    IF IsSome(e.salt) THEN e.salt.val
    ELSE << pe_in.val.self.client_name.realm,
            pe_in.val.self.client_name.comps[1] >>

\* the call succeeded and derived its key from entry e
PeUsed(e) ==
    /\ pe_ret.kind = "Ok"
    /\ PeKey.salt = SaltFor(e)
    /\ PeKey.iter_count = e.s2kparams

SupportedIdx == { i \in 1..Len(PeList) : Supported(PeList[i]) }
LastSupportedIdx == CHOOSE i \in SupportedIdx : \A j \in SupportedIdx : j <= i

\* no other reason for entry e to fail the call
PeEntryUsable(e) ==
    /\ ~PeBadTimestamp
    /\ ~KeyRejected(pe_in.val.passphrase)
    /\ IsSome(e.s2kparams) => Len(e.s2kparams.val) = 4
    /\ ~IsSome(e.salt) => pe_in.val.self.client_name.name_type = 1

PreauthState(b) ==
    IF IsSome(b.preauth) /\ IsSome(b.preauth.val.enc_timestamp)
        THEN "EncTimestampComputed" ELSE "NoPreauth"

RoundTripped == ConvCalled /\ conv_in.op = "round_trip"

\* C12: request round trip.  For every Authentication request built
\* without pre-auth, the conversion to the wire succeeds, converting the
\* wire message back succeeds and gives a request equal to the original in
\* client name, service name, from, until, renew, pre-auth and encryption
\* types, and a second conversion to the wire gives the same wire message.
C12_RoundTrip ==
    RoundTripped =>
        /\ conv_ret.wire1.kind = "Ok"
        /\ conv_ret.back.kind = "Ok"
        /\ conv_ret.back.val.client_name = conv_in.request.client_name
        /\ conv_ret.back.val.service_name = conv_in.request.service_name
        /\ conv_ret.back.val.from = conv_in.request.from
        /\ conv_ret.back.val.until = conv_in.request.until
        /\ conv_ret.back.val.renew = conv_in.request.renew
        /\ conv_ret.back.val.preauth = conv_in.request.preauth
        /\ conv_ret.back.val.etypes = conv_in.request.etypes
        /\ conv_ret.wire2 = conv_ret.wire1

\* ---- C13 (SpecConv) --------------------------------------------------
SupportedEtype(e) == e = AES256_CTS_HMAC_SHA1_96

\* the wire request of the call, its etype list cut to the supported values
WithSupportedEtypesOnly(k) ==
    [k EXCEPT !.req.req_body.etype = SelectSeq(@, SupportedEtype)]

\* C13: encryption type filtering.  For every AS-REQ the conversion
\* accepts, the etypes of the result are the supported values of the wire
\* etype list, in the same order and with the same multiplicity; and the
\* other values never cause an error: the call ends as it does for the same
\* message without them.
C13_EtypeFiltering ==
    FromWire =>
        /\ conv_ret.kind = "Ok" =>
              conv_ret.val.etypes =
                  SelectSeq(conv_in.wire.req.req_body.etype, SupportedEtype)
        /\ conv_ret.kind =
              try_from_KrbKdcReq(WithSupportedEtypesOnly(conv_in.wire)).kind

\* an accepted AS-REQ whose list holds the supported value twice around an
\* unknown one
C13_Witness ==
    /\ FromWire
    /\ conv_ret.kind = "Ok"
    /\ conv_in.wire.req.req_body.etype =
          <<AES256_CTS_HMAC_SHA1_96, 99, AES256_CTS_HMAC_SHA1_96>>
    /\ conv_ret.val.etypes =
          <<AES256_CTS_HMAC_SHA1_96, AES256_CTS_HMAC_SHA1_96>>

\* ---- C14 (SpecEncode) ------------------------------------------------
\* an encode call on an empty output buffer returned Ok
EncAccepted ==
    /\ IsSome(enc_msg)
    /\ enc_ret.kind = "Ok"
    /\ enc_msg.val.before = << >>

\* C14: single fragment on encode.  For every request encode accepts,
\* whatever the length of its DER serialization, the bytes written are one
\* fragment: a 4-byte header with bit 31 set and the low 31 bits equal to
\* the DER length, followed by the DER bytes.
C14_SingleFragment ==
    EncAccepted =>
        LET der == enc_msg.val.msg.to_der.val
            out == enc_msg.val.after
        IN  /\ Len(out) = 4 + Len(der)
            /\ LastRecBit(Take(out, 4))
            /\ FragSize(Take(out, 4)) = Len(der)
            /\ Drop(out, 4) = der

\* ---- C15 (SpecConv) --------------------------------------------------
\* a start / expiry / renew time of the request has no wire form
SomeTimeUnconvertible(r) ==
    \/ from_system_time(r.until).kind = "Err"
    \/ (IsSome(r.from) /\ from_system_time(r.from.val).kind = "Err")
    \/ (IsSome(r.renew) /\ from_system_time(r.renew.val).kind = "Err")

\* the client or the service name of the request has no wire form
SomeNameUnconvertible(r) ==
    \/ Name_to_wire(r.client_name).kind = "Err"
    \/ Name_to_wire(r.service_name).kind = "Err"

\* C15: fallible domain-to-wire mapping.  Converting an Authentication
\* request with a time or a name that cannot be converted, and converting
\* a wire AS-REQ whose cname and realm cannot be converted, each return an
\* error value (never an abort).
C15_FallibleMapping ==
    /\ ( /\ ToWire
         /\ conv_in.request.variant = "Authentication"
         /\ ( SomeTimeUnconvertible(conv_in.request)
              \/ SomeNameUnconvertible(conv_in.request) ) )
           => conv_ret.kind = "Err"
    /\ ( /\ FromWire
         /\ conv_in.wire.req.pvno = 5
         /\ conv_in.wire.req.msg_type = KRB_AS_REQ
         /\ IsSome(conv_in.wire.req.req_body.cname)
         /\ Name_from_cname(conv_in.wire.req.req_body.cname.val,
                            conv_in.wire.req.req_body.realm).kind = "Err" )
           => conv_ret.kind = "Err"

\* ---- C16 (SpecDecode) ------------------------------------------------
\* C16: size limit on decode.  A decode call that reads a complete record
\* whose payload is longer than max_size returns an error, never a
\* response.
C16_DecodeSizeLimit ==
    \A i \in 1..Len(dlog) :
        LET rr == ReadRecord(dlog[i].before, << >>)
        IN  (rr.kind = "Record" /\ Len(rr.record) > max_size)
                => dlog[i].ret.kind = "Err"

\* ---- C17, C18 (SpecDecode) -------------------------------------------
\* the i-th decode call found no complete record in its buffer
NoCompleteRecord(i) == ReadRecord(dlog[i].before, << >>).kind = "Eof"

\* C17: resumable decode.  A decode call that finds fewer bytes than one
\* complete record leaves them in the buffer for the next call.
C17_ResumableDecode ==
    \A i \in 1..Len(dlog) :
        NoCompleteRecord(i) => dlog[i].after = dlog[i].before

\* C18: no record available.  A decode call on a buffer that holds no
\* complete record (empty, or part of a record) returns an error of kind
\* UnexpectedEof, never Ok.
C18_NoRecordIsUnexpectedEof ==
    \A i \in 1..Len(dlog) :
        NoCompleteRecord(i) =>
            /\ dlog[i].ret.kind = "Err"
            /\ dlog[i].ret.err = "UnexpectedEof"

\* a call on part of a record, and a call on an empty buffer
C18_Witness ==
    /\ Len(dlog) >= 2
    /\ dlog[1].before # << >>
    /\ NoCompleteRecord(1)
    /\ dlog[1].ret.kind = "Err"
    /\ dlog[2].before = << >>
    /\ dlog[2].ret.kind = "Err"

\* ---- C19 (SpecConv) --------------------------------------------------
\* C19: nonce invariant on every request value.  Every Authentication
\* request the program produces, by build() or by converting a wire
\* AS-REQ, has nonce < 2^31 (the top bit of the 32-bit value is zero).
C19_NonceInvariant ==
    /\ IsSome(built) => built.val.nonce[1] < 128
    /\ (FromWire /\ conv_ret.kind = "Ok") => conv_ret.val.nonce[1] < 128

\* ---- C20 (SpecBuilder) -----------------------------------------------
\* equality of two optional values
OptEq(a, b) == a.kind = b.kind /\ (a.kind = "Some" => a.val = b.val)

IsCookieEntry(pa) == pa.padata_type = PA_FX_COOKIE

\* the wire form of the built request
WireFormOfBuilt == try_into_KrbKdcReq(built.val)

\* the PA-FX-COOKIE entries of a wire request
CookieEntries(k) ==
    IF IsSome(k.req.padata) THEN SelectSeq(k.req.padata.val, IsCookieEntry)
    ELSE << >>

\* C20: cookie echo.  A request built after a successful preauth_enc_ts
\* call has preauth.pa_fx_cookie equal to the pa_fx_cookie of the pa_data
\* of that call, and its wire form holds one PA-FX-COOKIE entry with those
\* bytes when the cookie is present and none when it is absent.
C20_CookieEcho ==
    (IsSome(built) /\ pe_ok) =>
        LET cookie == pe_in.val.pa_data.pa_fx_cookie
        IN  /\ pe_ret.kind = "Ok"
            /\ OptEq(built.val.preauth.pa_fx_cookie, cookie)
            /\ WireFormOfBuilt.kind = "Ok"
            /\ IsSome(cookie) =>
                  CookieEntries(WireFormOfBuilt.val) =
                      <<[padata_type |-> PA_FX_COOKIE,
                         padata_value |-> PaValue("Cookie", cookie.val)]>>
            /\ ~IsSome(cookie) => CookieEntries(WireFormOfBuilt.val) = << >>

\* a request built after a call whose pa_data carried a cookie
C20_Witness ==
    /\ IsSome(built)
    /\ pe_ok
    /\ IsSome(pe_in.val.pa_data.pa_fx_cookie)
    /\ IsSome(built.val.preauth.pa_fx_cookie)
    /\ Len(CookieEntries(WireFormOfBuilt.val)) = 1

\* ---- C21 (SpecConv) --------------------------------------------------
\* an Authentication request was converted to its wire form
ToWireOk ==
    /\ ToWire
    /\ conv_in.request.variant = "Authentication"
    /\ conv_ret.kind = "Ok"

\* the types of the entries of a wire pre-auth list, in order
PadataTypes(list) == [i \in 1..Len(list) |-> list[i].padata_type]

\* C21: wire pre-auth list shape.  In the wire form of an Authentication
\* request, padata is absent exactly when the Preauth has neither a cookie
\* nor an encrypted timestamp; otherwise it holds one entry per present
\* item and no others, the PA-FX-COOKIE entry before the PA-ENC-TIMESTAMP
\* entry.
C21_PadataShape ==
    ToWireOk =>
        LET preauth == conv_in.request.preauth
            padata == conv_ret.val.req.padata
            expected ==
                (IF IsSome(preauth.pa_fx_cookie)
                     THEN <<PA_FX_COOKIE>> ELSE << >>)
                \o (IF IsSome(preauth.enc_timestamp)
                        THEN <<PA_ENC_TIMESTAMP>> ELSE << >>)
        IN  /\ ~IsSome(padata) <=> expected = << >>
            /\ IsSome(padata) => PadataTypes(padata.val) = expected

\* a request with a cookie and an encrypted timestamp was converted
C21_Witness ==
    /\ ToWireOk
    /\ IsSome(conv_in.request.preauth.pa_fx_cookie)
    /\ IsSome(conv_in.request.preauth.enc_timestamp)
    /\ IsSome(conv_ret.val.req.padata)
    /\ Len(conv_ret.val.req.padata.val) = 2

\* ---- C22 (SpecDecode) ------------------------------------------------
\* two well-formed records were in the buffer, back to back, at the first
\* decode call
TwoRecordsBuffered ==
    /\ Len(payloads) = 2
    /\ from_der(payloads[1]).kind = "Ok"
    /\ from_der(payloads[2]).kind = "Ok"
    /\ Len(dlog) >= 1
    /\ dlog[1].before = wire

\* the i-th decode call returned the response of payload p
Returned(i, p) ==
    /\ dlog[i].ret.kind = "Ok"
    /\ dlog[i].ret.val.kind = "Some"
    /\ dlog[i].ret.val.val = from_der(p).val

\* C22: one response per decode call, in order.  With two complete
\* records in the buffer, the first decode call returns the response of
\* the first record and leaves exactly the bytes of the second record,
\* and the second call returns the response of the second record and
\* leaves nothing.
C22_OneResponsePerCall ==
    TwoRecordsBuffered =>
        /\ Returned(1, payloads[1])
        /\ dlog[1].after = Fragment(payloads[2])
        /\ Len(dlog) >= 2 =>
              /\ dlog[2].before = Fragment(payloads[2])
              /\ Returned(2, payloads[2])
              /\ dlog[2].after = << >>

\* two different replies were decoded by two calls
C22_Witness ==
    /\ TwoRecordsBuffered
    /\ payloads[1] # payloads[2]
    /\ Len(dlog) >= 2
    /\ Returned(1, payloads[1])
    /\ Returned(2, payloads[2])

====
